---- MODULE Spec2Model ----
(***************************************************************************)
(* The channel-liveness probing engine of acestream-scraper (v2 backend):  *)
(*   ChannelStatusService.check_channel_status      (Probe Client)         *)
(*   ChannelStatusService.check_multiple_channels   (Bounded Batch Prober) *)
(*   ChannelRepository.update_channel_status        (Status Recorder)      *)
(*   check_all_channels_status / check_acestream_channel_status            *)
(*                                                  (Dispatch Policy)      *)
(*   ChannelStatusService.get_channel_status_summary (Summary Aggregator)  *)
(*                                                                         *)
(* One behaviour of Spec is the life of one HTTP request against a         *)
(* persisted channel table in any state earlier requests can have left it  *)
(* in; CancelSpec adds the cancellation of its run, TwiceSpec serves       *)
(* check_status requests in succession, SummarySpec serves the summary,    *)
(* BackgroundSpec adds the fairness of the background-task facility, and   *)
(* OverlapSpec lets two calls, each with its own service, overlap in time. *)
(* Channel ids are the integers 1..n of the stored rows; 0 is an id that   *)
(* resolves to no stored row.  A channel list is a sequence of ids.        *)
(***************************************************************************)
EXTENDS Integers, Sequences, FiniteSets, TLC

(* ------------------------------ bounds --------------------------------- *)
\* Stored rows of a small table.
MaxStored == 2
\* Longest explicit short channel_ids list of a request.
MaxIds == 2
\* Largest concurrency value of a request.
MaxConc == 2
\* Largest magnitude of an explicit limit (besides the threshold itself).
MaxLimit == 2

(* ------------------------- program constants --------------------------- *)
\* channels.py:124  len(channels) > 20
Threshold == 20
\* channel_status_service.py:228  batch_size = 10
BatchSize == 10
\* channels.py:121  concurrency = ... if request else 3
DefaultConcurrency == 3
\* acestreamchannel_service.py:14  get_all_channels(..., limit: int = 100, ...)
DefaultLimit == 100
\* channel_status_service.py:264  get_channels(limit=10000)
SummaryLimit == 10000
\* channel_status_service.py:273  start of the current day; timestamps below it
\* are of earlier days
DayStart == 1

Null == "<none>"

(* -------------------------------- state -------------------------------- *)
VARIABLES
    db,          \* the persisted channel table: id -> row
    db0,         \* the table as it was when the request arrived
    engine,      \* "free": the engine may answer anything and a commit may fail;
                 \* "fixed": FixedAnswer and no failing commit;
                 \* "faulty": FixedAnswer, and the commit of a timed-out probe fails
    now,         \* datetime.utcnow(): the request is served within one reading
                 \* of the clock, later than every stored timestamp
    request,     \* the HTTP request being served
    phase,       \* "idle", "inline" (awaiting check_multiple_channels),
                 \* "single" (awaiting check_channel_status), "sent"
    response,    \* the HTTP response, NoResponse until sent
    bg,          \* BackgroundTasks: the task added, its arguments and state
    run,         \* the check_multiple_channels call: its arguments, loop index i
                 \* and where it is
    tasks,       \* the check_with_semaphore tasks of the current batch
    sem,         \* the semaphore's value
    all_results, \* all_results of the run
    issued,      \* engine requests issued so far
    recorded,    \* whether a Status Recorder call was made so far
    probe,       \* what the engine answered to check_status's probe, and how many
                 \* of its commits failed
    history,     \* the requests served before this one: request, probe, response
                 \* and the time each was served at
    services     \* the handler calls and tasks that overlap in time (OverlapSpec),
                 \* each with its own ChannelStatusService

(* ------------------------------- texts --------------------------------- *)
\* The needle of check_channel_status, line 78.
Needle == "got newer download"
\* Error texts the engine puts in a body's "error" field.
EngineErrors ==
    { "got newer download", "Got Newer Download",
      "failed: GOT NEWER DOWNLOAD (retry)", "unknown infohash", "" }
\* str.lower() on the texts above.
Lower(s) ==
    CASE s = "Got Newer Download" -> "got newer download"
      [] s = "failed: GOT NEWER DOWNLOAD (retry)" -> "failed: got newer download (retry)"
      [] OTHER -> s
\* needle in text, for the lower-cased texts above.
Contains(s, needle) ==
    /\ needle = "got newer download"
    /\ s \in {"got newer download", "failed: got newer download (retry)"}
\* Python truthiness of the "error" value (None and "" are falsy).
Truthy(e) == e # Null /\ e # ""
\* The text of the exception a failing db.commit() raises.
DbErr == "database is locked"

(* --------------------------- persisted rows ---------------------------- *)
\* AcestreamChannel columns the subsystem reads and writes.  is_online is
\* "true", "false" or "null" (never probed).
Row(active, online, err, at) ==
    [is_active |-> active, is_online |-> online, check_error |-> err, last_checked |-> at]
NeverProbed(active) == Row(active, "null", Null, -1)
\* Rows an earlier probe of an earlier day can have left.
InitRows ==
    { NeverProbed(TRUE), NeverProbed(FALSE), Row(TRUE, "false", "Request timeout", 0) }
\* The rows of a large table: active, in the three states by turns.
LargeRow(i) ==
    CASE i % 3 = 0 -> NeverProbed(TRUE)
      [] i % 3 = 1 -> Row(TRUE, "true", Null, 0)
      [] OTHER     -> Row(TRUE, "false", "Request timeout", 0)

Tri(b) == IF b THEN "true" ELSE "false"

(* --------------------------- engine answers ---------------------------- *)
\* What one GET /ace/getstream can end in: a timeout, a transport exception,
\* or an HTTP response with a status and a body.
Body(kind, err, hasResp, live, detail) ==
    [kind |-> kind, error |-> err, has_response |-> hasResp, is_live |-> live, detail |-> detail]
NoBody == Body("none", Null, FALSE, -1, "")
\* JSON objects: "error" absent or a text, "response" absent or an object whose
\* is_live is absent (-1), 0 or 1.
DictBodies ==
    { Body("dict", e, r, l, "") :
        e \in {Null} \cup EngineErrors, r \in BOOLEAN, l \in {-1, 0, 1} }
Bodies ==
    DictBodies
      \cup { Body("nondict", Null, FALSE, -1, ""),
             Body("unparseable", Null, FALSE, -1, "Expecting value") }
Answer(kind, status, body, text) ==
    [kind |-> kind, status |-> status, body |-> body, text |-> text]
\* Non-200 statuses; their body is never read by the code.
ErrorStatuses == {500}
Answers ==
    { Answer("timeout", 0, NoBody, ""),
      Answer("transport", 0, NoBody, "Cannot connect to host") }
      \cup { Answer("http", 200, b, "") : b \in Bodies }
      \cup { Answer("http", s, b, "") :
                s \in ErrorStatuses,
                b \in {NoBody, Body("dict", Needle, FALSE, -1, "")} }
\* A stable engine: its answer depends on the channel id alone.
FixedAnswer(id) ==
    CASE id % 4 = 1 -> Answer("http", 200, Body("dict", Null, TRUE, 1, ""), "")
      [] id % 4 = 2 -> Answer("timeout", 0, NoBody, "")
      [] id % 4 = 3 -> Answer("http", 500, NoBody, "")
      [] OTHER      -> Answer("http", 200, Body("dict", "Got Newer Download", FALSE, -1, ""), "")

(* ------------------------- Status Recorder ----------------------------- *)
\* ChannelRepository.update_channel_status: a row that no longer resolves is
\* left alone; otherwise the three columns are replaced and committed.
\* (a variant that keeps the stored error when the new one is None)
update_channel_statusKeepingError(d, t, id, online, err) ==
    IF id \notin DOMAIN d THEN d
    ELSE [d EXCEPT ![id] = Row(d[id].is_active, Tri(online),
                               IF err = Null THEN d[id].check_error ELSE err, t)]
\* (a variant whose UPDATE is not restricted to the channel's row)
update_channel_statusUnfiltered(d, t, id, online, err) ==
    IF id \notin DOMAIN d THEN d
    ELSE [i \in DOMAIN d |-> Row(d[i].is_active, Tri(online), err, t)]
update_channel_status(d, t, id, online, err) ==
    IF id \notin DOMAIN d THEN d
    ELSE [d EXCEPT ![id] = Row(d[id].is_active, Tri(online), err, t)]

(* ---------------------------- Probe Client ----------------------------- *)
Outcome(id, online, status, msg, err) ==
    [channel_id |-> id, is_online |-> online, status |-> status, message |-> msg, error |-> err]
\* (a variant whose online outcome repeats its message as error)
OnlineOutcomeWithError(id, msg) == Outcome(id, TRUE, "online", msg, msg)
OnlineOutcome(id, msg) == Outcome(id, TRUE, "online", msg, Null)
OfflineOutcome(id, msg) == Outcome(id, FALSE, "offline", msg, msg)
NoOutcome == Outcome(-1, FALSE, "none", "", Null)

\* The end of one check_channel_status call: it returned `outcome`, or raised
\* `exc`; `db` is the table after it, `calls` the Status Recorder calls it made,
\* `wrote` whether one of them committed.
Returned(d, o, calls) ==
    [db |-> d, raised |-> FALSE, outcome |-> o, exc |-> "", calls |-> calls, wrote |-> TRUE]
Raised(d, e, calls) ==
    [db |-> d, raised |-> TRUE, outcome |-> NoOutcome, exc |-> e, calls |-> calls, wrote |-> FALSE]

\* A probe makes at most three Status Recorder calls; of them the first nf raise
\* (a commit that fails), the next one commits.
Fails(nf, used) == used + 1 <= nf

\* except Exception (lines 177-190), reached with `used` calls made.
ExceptException(d, t, id, e, nf, used) ==
    IF Fails(nf, used) THEN Raised(d, DbErr, used + 1)
    ELSE Returned(update_channel_status(d, t, id, FALSE, e), OfflineOutcome(id, e), used + 1)
\* except asyncio.TimeoutError (lines 163-176).
ExceptTimeout(d, t, id, nf) ==
    IF Fails(nf, 0) THEN Raised(d, DbErr, 1)
    ELSE Returned(update_channel_status(d, t, id, FALSE, "Request timeout"),
                  OfflineOutcome(id, "Request timeout"), 1)
\* The inner except Exception (lines 135-147), reached with `used` calls made.
ExceptInvalid(d, t, id, e, nf, used) ==
    LET msg == "Invalid response format: " \o e IN
    IF Fails(nf, used) THEN ExceptException(d, t, id, DbErr, nf, used + 1)
    ELSE Returned(update_channel_status(d, t, id, FALSE, msg), OfflineOutcome(id, msg), used + 1)
\* Lines 78, 92-94: the two tests on a JSON object.
IsNewerDownload(b) == Truthy(b.error) /\ Contains(Lower(b.error), Needle)
IsLive(b) == b.error = Null /\ b.has_response /\ b.is_live = 1
\* Lines 71-133: a 200 response.
Status200(d, t, id, b, nf) ==
    IF b.kind = "unparseable" THEN ExceptInvalid(d, t, id, b.detail, nf, 0)
    ELSE IF Fails(nf, 0) THEN ExceptInvalid(d, t, id, DbErr, nf, 1)
    ELSE IF b.kind # "dict"
      THEN Returned(update_channel_status(d, t, id, FALSE, "Invalid response format"),
                    OfflineOutcome(id, "Invalid response format"), 1)
    ELSE IF IsNewerDownload(b)
      THEN Returned(update_channel_status(d, t, id, TRUE, Null),
                    OnlineOutcome(id, "Channel is available"), 1)
    ELSE IF IsLive(b)
      THEN Returned(update_channel_status(d, t, id, TRUE, Null),
                    OnlineOutcome(id, "Channel is live"), 1)
    ELSE LET error_msg == IF Truthy(b.error) THEN b.error ELSE "Channel is not live" IN
         Returned(update_channel_status(d, t, id, FALSE, error_msg),
                  OfflineOutcome(id, error_msg), 1)
\* (a variant that returns the HTTP error outcome without recording it)
StatusOtherUnrecorded(d, t, id, status, nf) ==
    Returned(d, OfflineOutcome(id, "HTTP " \o ToString(status)), 0)
\* Lines 149-161: any other status.
StatusOther(d, t, id, status, nf) ==
    LET msg == "HTTP " \o ToString(status) IN
    IF Fails(nf, 0) THEN ExceptException(d, t, id, DbErr, nf, 1)
    ELSE Returned(update_channel_status(d, t, id, FALSE, msg), OfflineOutcome(id, msg), 1)
\* check_channel_status(channel) against engine answer a, at time t.
check_channel_status(d, t, id, a, nf) ==
    CASE a.kind = "timeout"   -> ExceptTimeout(d, t, id, nf)
      [] a.kind = "transport" -> ExceptException(d, t, id, a.text, nf, 0)
      [] OTHER -> IF a.status = 200 THEN Status200(d, t, id, a.body, nf)
                  ELSE StatusOther(d, t, id, a.status, nf)

\* (a variant whose error outcome does not carry the exception's text)
TaskErrorWithoutText(id, e) == Outcome(id, FALSE, "error", "", Null)
\* check_with_semaphore's except branch (lines 216-225).
TaskError(id, e) == Outcome(id, FALSE, "error", e, e)

(* ------------------------- Channel Repository -------------------------- *)
Min(a, b) == IF a <= b THEN a ELSE b
Max(a, b) == IF a >= b THEN a ELSE b
\* Python's seq[:n] (a negative n counts from the end).
Prefix(seq, n) ==
    IF n >= 0 THEN SubSeq(seq, 1, Min(n, Len(seq)))
    ELSE SubSeq(seq, 1, Max(Len(seq) + n, 0))
AllIds(d) == [i \in 1..Cardinality(DOMAIN d) |-> i]
\* ChannelRepository.get_channels(skip=0, limit, active_only): the ids of the
\* first `limit` rows, of the active rows when active_only.
\* (a variant without the is_active filter)
get_channelsUnfiltered(d, limit, active_only) == Prefix(AllIds(d), limit)
get_channels(d, limit, active_only) ==
    LET rows == IF active_only THEN SelectSeq(AllIds(d), LAMBDA i : d[i].is_active)
                ELSE AllIds(d)
    IN  Prefix(rows, limit)
\* AcestreamChannelService.get_all_channels(active_only=True): limit defaults to 100.
get_all_channels(d) == get_channels(d, DefaultLimit, TRUE)
\* (a variant that resolves every id)
ResolvesAnything(d, id) == TRUE
\* get_channel_by_id(id) is not None.
Resolves(d, id) == id \in DOMAIN d

(* ---------------------- Status Summary Aggregator ---------------------- *)
\* (a variant that cuts the percentage off after the first decimal)
PercentageTruncated(num, den) ==
    IF den = 0 THEN 0 ELSE (num * 1000) \div den
\* round(num / den * 100, 1) in tenths, 0 when den = 0.  Ties go to the even
\* tenth; the float num / den * 100 is the exact value wherever a tie can occur
\* with fewer than 80 channels (23 / 80 * 100 is the first that falls below its
\* exact value 28.75).
Percentage(num, den) ==
    IF den = 0 THEN 0
    ELSE LET q == (num * 1000) \div den
             r == (num * 1000) % den
         IN  IF 2 * r < den THEN q
             ELSE IF 2 * r > den THEN q + 1
             ELSE IF q % 2 = 0 THEN q ELSE q + 1
\* (a variant whose offline count is `not c.is_online`: a never-probed channel
\* counts as offline and as unknown)
get_channel_status_summaryNullAsOffline(d) ==
    LET channels == get_channels(d, SummaryLimit, TRUE)
        total    == Len(channels)
        online   == Cardinality({k \in 1..total : d[channels[k]].is_online = "true"})
        recent   == Cardinality({k \in 1..total : d[channels[k]].last_checked >= DayStart})
    IN  [ total_channels     |-> total,
          active_channels    |-> Cardinality({k \in 1..total : d[channels[k]].is_active}),
          online             |-> online,
          offline            |-> Cardinality({k \in 1..total : d[channels[k]].is_online # "true"}),
          unknown            |-> Cardinality({k \in 1..total : d[channels[k]].is_online = "null"}),
          recent_checks      |-> recent,
          online_percentage  |-> Percentage(online, total),
          checked_percentage |-> Percentage(recent, total) ]
\* get_channel_status_summary() at a moment of the day that began at DayStart.
get_channel_status_summary(d) ==
    LET channels == get_channels(d, SummaryLimit, TRUE)
        total    == Len(channels)
        online   == Cardinality({k \in 1..total : d[channels[k]].is_online = "true"})
        recent   == Cardinality({k \in 1..total : d[channels[k]].last_checked >= DayStart})
    IN  [ total_channels     |-> total,
          active_channels    |-> Cardinality({k \in 1..total : d[channels[k]].is_active}),
          online             |-> online,
          offline            |-> Cardinality({k \in 1..total : d[channels[k]].is_online = "false"}),
          unknown            |-> Cardinality({k \in 1..total : d[channels[k]].is_online = "null"}),
          recent_checks      |-> recent,
          online_percentage  |-> Percentage(online, total),
          checked_percentage |-> Percentage(recent, total) ]
NoSummary == get_channel_status_summary(<<>>)

(* ------------------------------ requests ------------------------------- *)
\* POST /check_status_all: an optional body {channel_ids, concurrency} and an
\* optional ?limit=.  channel_ids = <<>> stands for null and for [].
AllRequest(hasBody, ids, k, hasLimit, limit) ==
    [op |-> "all", has_body |-> hasBody, channel_ids |-> ids, concurrency |-> k,
     has_limit |-> hasLimit, limit |-> limit, id |-> 0]
\* POST /{id}/check_status.
OneRequest(id) ==
    [op |-> "one", has_body |-> FALSE, channel_ids |-> <<>>, concurrency |-> 0,
     has_limit |-> FALSE, limit |-> 0, id |-> id]
NoRequest ==
    [op |-> "none", has_body |-> FALSE, channel_ids |-> <<>>, concurrency |-> 0,
     has_limit |-> FALSE, limit |-> 0, id |-> 0]

\* Lines 104-111: the channels to check.
Resolved(d, req) ==
    IF req.has_body /\ req.channel_ids # <<>>
    THEN SelectSeq(req.channel_ids, LAMBDA id : Resolves(d, id))
    ELSE get_all_channels(d)
\* (a variant that never applies the limit)
LimitIgnored(chs, req) == chs
\* Lines 117-118: if limit: channels = channels[:limit].
Limited(chs, req) ==
    IF req.has_limit /\ req.limit # 0 THEN Prefix(chs, req.limit) ELSE chs
\* Line 121.
Concurrency(req) == IF req.has_body THEN req.concurrency ELSE DefaultConcurrency
\* (a variant that defers a list of exactly the threshold)
DeferredAtThreshold(chs) == Len(chs) >= Threshold
\* Line 124.
Deferred(chs) == Len(chs) > Threshold

(* ------------------------------ responses ------------------------------ *)
Response(code, detail, background, total, results, summary, outcome) ==
    [ code |-> code, detail |-> detail, background |-> background,
      total_channels |-> total, total_checked |-> Len(results),
      online_count  |-> Cardinality({j \in 1..Len(results) : results[j].is_online}),
      offline_count |-> Cardinality({j \in 1..Len(results) : ~results[j].is_online}),
      results |-> results, summary |-> summary, outcome |-> outcome ]
NoResponse == Response(0, "", FALSE, 0, <<>>, NoSummary, NoOutcome)
NotFound(detail) == Response(404, detail, FALSE, 0, <<>>, NoSummary, NoOutcome)
\* Lines 133-142.
DeferredResponse(d, chs) ==
    Response(200, "", TRUE, Len(chs), <<>>, get_channel_status_summary(d), NoOutcome)
\* (a variant that reads the summary before the run)
InlineResponseEarlySummary(d, chs, results) ==
    Response(200, "", FALSE, Len(chs), results, get_channel_status_summary(db0), NoOutcome)
\* Lines 146-161.
InlineResponse(d, chs, results) ==
    Response(200, "", FALSE, Len(chs), results, get_channel_status_summary(d), NoOutcome)
\* check_acestream_channel_status returns the outcome; an exception out of the
\* handler is the framework's 500.
ServerError == Response(500, "Internal Server Error", FALSE, 0, <<>>, NoSummary, NoOutcome)
OneResponse(r) ==
    IF r.raised THEN ServerError
    ELSE Response(200, "", FALSE, 0, <<>>, NoSummary, r.outcome)

vars == << db, db0, history, engine, now, request, phase, response, bg, run, tasks, sem,
           all_results, issued, recorded, probe, history, services >>

NoProbe == [answer |-> Answer("none", 0, NoBody, ""), nf |-> 0]
NoBg == [state |-> "none", channels |-> <<>>, concurrency |-> 0]
NoRun == [state |-> "none", channels |-> <<>>, concurrency |-> 0, i |-> 0]
Task(st, id, result) == [st |-> st, id |-> id, result |-> result]

(* ------------------------------- inputs -------------------------------- *)
\* Requests served one after the other in a behaviour of TwiceSpec.
MaxCalls == 2
\* Most channels of one kind (online, offline, never probed) in a table of
\* SummarySpec.
MaxCount == 4
\* Tables: small ones in every state earlier probes can have left, small ones
\* never probed, two large ones (just above the dispatch threshold, and just
\* above the default page of get_all_channels), and one of active channels
\* never probed for the engine whose timed-out probes cannot be recorded.
SmallTables == UNION { [1..n -> InitRows] : n \in 0..MaxStored }
PlainTables == UNION { [1..n -> {NeverProbed(TRUE), NeverProbed(FALSE)}] : n \in 0..MaxStored }
LargeTables == { [i \in 1..n |-> LargeRow(i)] : n \in {Threshold + 1, DefaultLimit + 1} }
FullTables == { [i \in 1..MaxStored |-> NeverProbed(TRUE)] }
\* Explicit id lists: every short list over the first stored ids and the
\* unresolvable id 0, and two long lists that repeat the stored ids.
ShortLists(d) ==
    UNION { [1..m -> 0..Min(Cardinality(DOMAIN d), MaxStored)] : m \in 0..MaxIds }
LongList(d, len) ==
    [j \in 1..len |-> ((j - 1) % Min(Cardinality(DOMAIN d), MaxStored)) + 1]
LongLists(d) ==
    IF DOMAIN d = {} THEN {}
    ELSE { LongList(d, Threshold), <<0>> \o LongList(d, Threshold + 1) }
Limits == (-MaxLimit..MaxLimit) \cup {Threshold}
\* The requests explored.  Against a free engine the lists are short and carry
\* no limit (the outcomes of a long list under a free engine are too many); a
\* large table is asked for its active channels only.
IsSmall(d) == Cardinality(DOMAIN d) <= MaxStored
IdLists(d, e) ==
    IF ~IsSmall(d) THEN {<<>>}
    ELSE IF e = "free" THEN ShortLists(d)
    ELSE IF e = "faulty" THEN LongLists(d)
    ELSE ShortLists(d) \cup LongLists(d)
LimitsOf(d, e) ==
    IF e \in {"free", "faulty"} THEN {} ELSE IF IsSmall(d) THEN Limits ELSE {Threshold}
AllRequests(d, e) ==
    { AllRequest(TRUE, ids, k, FALSE, 0) : ids \in IdLists(d, e), k \in (-1)..MaxConc }
      \cup { AllRequest(TRUE, ids, k, TRUE, l) :
                ids \in IdLists(d, e), k \in (-1)..MaxConc, l \in LimitsOf(d, e) }
      \cup { AllRequest(FALSE, <<>>, 0, FALSE, 0) }
      \cup { AllRequest(FALSE, <<>>, 0, TRUE, l) : l \in LimitsOf(d, e) }
OneRequests(d) == { OneRequest(id) : id \in 0..Min(Cardinality(DOMAIN d), MaxStored) }
\* What the engine can answer to a probe of id, and how many commits can fail.
EngineAnswers(e, id) == IF e = "free" THEN Answers ELSE {FixedAnswer(id)}
CommitFailures(e, id) ==
    CASE e = "free"   -> 0..3
      [] e = "faulty" -> {IF FixedAnswer(id).kind = "timeout" THEN 1 ELSE 0}
      [] OTHER        -> {0}

Init ==
    /\ \/ db \in SmallTables /\ engine = "free"
       \/ db \in PlainTables \cup LargeTables /\ engine = "fixed"
       \/ db \in FullTables /\ engine = "faulty"
    /\ db0 = db
    /\ now = DayStart
    /\ request = NoRequest
    /\ phase = "idle"
    /\ response = NoResponse
    /\ bg = NoBg
    /\ run = NoRun
    /\ tasks = <<>>
    /\ sem = 0
    /\ all_results = <<>>
    /\ issued = 0
    /\ recorded = FALSE
    /\ probe = NoProbe
    /\ history = <<>>
    /\ services = <<>>

(* ----------------------- Bounded Batch Prober -------------------------- *)
\* Leaving `async with semaphore` (line 210), by return or by exception.
\* (a variant that keeps the slot)
ReleaseNothing(value) == value
Release(value) == value + 1
\* Lines 232-233 and the first step of every task created: the tasks of the
\* batch at index i run, in creation order and before any response can be
\* handled, up to their first suspension: a task that finds the semaphore free
\* takes a slot and issues its engine request (line 63), the others wait on the
\* semaphore in creation order.
\* (a variant that puts every remaining channel into one batch)
BatchToEnd(chs, i) == SubSeq(chs, i + 1, Len(chs))
Batch(chs, i) == SubSeq(chs, i + 1, Min(i + BatchSize, Len(chs)))
\* (a variant that does not gate the tasks of a batch by the semaphore)
StartedTasksUngated(batch, free) ==
    [p \in 1..Len(batch) |-> Task("inflight", batch[p], NoOutcome)]
\* (a variant whose tasks do not wait for a slot: a task that finds none ends
\* at once with an error outcome)
StartedTasksNonBlocking(batch, free) ==
    [p \in 1..Len(batch) |->
        IF p <= free THEN Task("inflight", batch[p], NoOutcome)
        ELSE Task("done", batch[p], TaskError(batch[p], "no free slot"))]
StartedTasks(batch, free) ==
    [p \in 1..Len(batch) |->
        Task(IF p <= free THEN "inflight" ELSE "waiting", batch[p], NoOutcome)]
\* (a variant in which a semaphore without a free slot still admits one task)
AdmittedAtLeastOne(batch, free) == Min(Len(batch), Max(free, 1))
Admitted(batch, free) == Min(Len(batch), Max(free, 0))
InFlight == {p \in 1..Len(tasks) : tasks[p].st = "inflight"}
Waiting == {p \in 1..Len(tasks) : tasks[p].st = "waiting"}
AllDone == \A p \in 1..Len(tasks) : tasks[p].st = "done"

\* check_multiple_channels(chs, k) up to its first await (lines 207-236).
BeginRun(chs, k) ==
    /\ run' = [state |-> "batch", channels |-> chs, concurrency |-> k, i |-> 0]
    /\ tasks' = StartedTasks(Batch(chs, 0), k)
    /\ sem' = k - Admitted(Batch(chs, 0), k)
    /\ issued' = issued + Admitted(Batch(chs, 0), k)
    /\ all_results' = <<>>

(* --------------------------- Dispatch Policy --------------------------- *)
\* check_all_channels_status up to its return or its first await.
RequestAll(req) ==
    /\ phase = "idle"
    /\ request' = req
    /\ LET found == Resolved(db, req)
           chs   == Limited(found, req)
           k     == Concurrency(req)
       IN  IF found = <<>>
           THEN /\ response' = NotFound("No channels found to check")
                /\ phase' = "sent"
                /\ UNCHANGED << bg, run, tasks, sem, all_results, issued >>
           ELSE IF Deferred(chs)
           THEN /\ bg' = [state |-> "queued", channels |-> chs, concurrency |-> k]
                /\ response' = DeferredResponse(db, chs)
                /\ phase' = "sent"
                /\ UNCHANGED << run, tasks, sem, all_results, issued >>
           ELSE IF k < 0
           THEN \* asyncio.Semaphore(k) raises ValueError (line 207), which
                \* leaves the handler: the framework's 500
                /\ run' = [state |-> "raised", channels |-> chs, concurrency |-> k, i |-> 0]
                /\ response' = ServerError
                /\ phase' = "sent"
                /\ UNCHANGED << bg, tasks, sem, all_results, issued >>
           ELSE IF chs = <<>>
           THEN \* the loop of check_multiple_channels has no iteration
                /\ run' = [state |-> "returned", channels |-> chs, concurrency |-> k, i |-> 0]
                /\ response' = InlineResponse(db, chs, <<>>)
                /\ phase' = "sent"
                /\ UNCHANGED << bg, tasks, sem, all_results, issued >>
           ELSE /\ BeginRun(chs, k)
                /\ phase' = "inline"
                /\ UNCHANGED << bg, response >>
    /\ UNCHANGED << db, db0, history, services, engine, now, recorded, probe >>

\* The background-task facility runs _background_status_check after the
\* response was sent.  An exception of check_multiple_channels (the ValueError
\* of asyncio.Semaphore for a negative value, line 207) is logged and not
\* raised (lines 350-354).
\* (a variant that runs the prober under the default concurrency)
BackgroundStartDefaultConcurrency ==
    /\ phase = "sent"
    /\ bg.state = "queued"
    /\ bg' = [bg EXCEPT !.state = "running"]
    /\ BeginRun(bg.channels, DefaultConcurrency)
    /\ UNCHANGED << db, db0, history, services, engine, now, request, phase, response, recorded, probe >>
BackgroundStart ==
    /\ phase = "sent"
    /\ bg.state = "queued"
    /\ IF bg.concurrency < 0
       THEN /\ bg' = [bg EXCEPT !.state = "failed"]
            /\ run' = [state |-> "raised", channels |-> bg.channels,
                       concurrency |-> bg.concurrency, i |-> 0]
            /\ UNCHANGED << tasks, sem, all_results, issued >>
       ELSE /\ bg' = [bg EXCEPT !.state = "running"]
            /\ BeginRun(bg.channels, bg.concurrency)
    /\ UNCHANGED << db, db0, history, services, engine, now, request, phase, response, recorded, probe >>

\* A waiting task is woken by a release and takes the slot (line 210), then
\* issues its engine request.
Admit(p) ==
    /\ run.state = "batch"
    /\ p \in Waiting
    /\ \A q \in Waiting : p <= q
    /\ sem > 0
    /\ tasks' = [tasks EXCEPT ![p].st = "inflight"]
    /\ sem' = sem - 1
    /\ issued' = issued + 1
    /\ UNCHANGED << db, db0, history, services, engine, now, request, phase, response, bg, run,
                    all_results, recorded, probe >>

\* The engine request of task p ends and check_channel_status runs to its end
\* (line 212).  If it returned, the task sleeps (line 214) holding its slot; if
\* it raised, the task ends with the error outcome and releases its slot.
ProbeReturn(p, a, nf) ==
    /\ run.state = "batch"
    /\ p \in InFlight
    /\ LET r == check_channel_status(db, now, tasks[p].id, a, nf) IN
         /\ db' = r.db
         /\ now' = now
         /\ recorded' = (recorded \/ r.calls >= 1)
         /\ IF r.raised
            THEN /\ tasks' = [tasks EXCEPT ![p] = Task("done", tasks[p].id,
                                                       TaskError(tasks[p].id, r.exc))]
                 /\ sem' = Release(sem)
            ELSE /\ tasks' = [tasks EXCEPT ![p] = Task("sleeping", tasks[p].id, r.outcome)]
                 /\ sem' = sem
    /\ UNCHANGED << db0, history, services, engine, request, phase, response, bg, run, all_results, issued,
                    probe >>

\* asyncio.sleep(1) of task p is over: it returns its result and releases its
\* slot (lines 214-215).
SleepDone(p) ==
    /\ run.state = "batch"
    /\ p \in 1..Len(tasks)
    /\ tasks[p].st = "sleeping"
    /\ tasks' = [tasks EXCEPT ![p].st = "done"]
    /\ sem' = Release(sem)
    /\ UNCHANGED << db, db0, history, services, engine, now, request, phase, response, bg, run,
                    all_results, issued, recorded, probe >>

\* gather returns (lines 236-249): the results of the batch are appended in
\* task order.  After the last batch the run returns; an inline request then
\* reads the summary and answers (lines 146-161), a background task ends.
\* (a variant that drops the error outcomes of a batch, as line 239 drops the
\* exceptions gather hands back)
BatchResultsWithoutErrors ==
    SelectSeq([p \in 1..Len(tasks) |-> tasks[p].result], LAMBDA o : o.status # "error")
\* (a variant that collects the outcomes of a batch last task first)
BatchResultsReversed == [p \in 1..Len(tasks) |-> tasks[Len(tasks) + 1 - p].result]
BatchResults == [p \in 1..Len(tasks) |-> tasks[p].result]
BatchDone ==
    /\ run.state = "batch"
    /\ AllDone
    /\ all_results' = all_results \o BatchResults
    /\ tasks' = <<>>
    /\ IF run.i + BatchSize < Len(run.channels)
       THEN /\ run' = [run EXCEPT !.state = "pause"]
            /\ UNCHANGED << phase, response, bg >>
       ELSE /\ run' = [run EXCEPT !.state = "returned"]
            /\ IF phase = "inline"
               THEN /\ response' = InlineResponse(db, run.channels, all_results')
                    /\ phase' = "sent"
                    /\ bg' = bg
               ELSE /\ bg' = [bg EXCEPT !.state = "done"]
                    /\ UNCHANGED << phase, response >>
    /\ UNCHANGED << db, db0, history, services, engine, now, request, sem, issued, recorded, probe >>

\* asyncio.sleep(2) between batches is over (lines 252-253): the next batch.
NextBatch ==
    /\ run.state = "pause"
    /\ run' = [run EXCEPT !.state = "batch", !.i = run.i + BatchSize]
    /\ tasks' = StartedTasks(Batch(run.channels, run.i + BatchSize), sem)
    /\ sem' = sem - Admitted(Batch(run.channels, run.i + BatchSize), sem)
    /\ issued' = issued + Admitted(Batch(run.channels, run.i + BatchSize), sem)
    /\ UNCHANGED << db, db0, history, services, engine, now, request, phase, response, bg,
                    all_results, recorded, probe >>

(* ------------------------------ check_one ------------------------------ *)
\* check_acestream_channel_status up to its return or its await (lines 194-200).
RequestOne(req) ==
    /\ phase = "idle"
    /\ request' = req
    /\ IF Resolves(db, req.id)
       THEN /\ phase' = "single"
            /\ tasks' = << Task("inflight", req.id, NoOutcome) >>
            /\ issued' = issued + 1
            /\ response' = response
       ELSE /\ phase' = "sent"
            /\ response' = NotFound("Acestream channel not found")
            /\ UNCHANGED << tasks, issued >>
    /\ UNCHANGED << db, db0, history, services, engine, now, bg, run, sem, all_results, recorded, probe >>

\* The engine request ends, check_channel_status runs to its end and the
\* handler answers (lines 200-201).
OneReturn(a, nf) ==
    /\ phase = "single"
    /\ LET r == check_channel_status(db, now, tasks[1].id, a, nf) IN
         /\ db' = r.db
         /\ now' = now
         /\ recorded' = (recorded \/ r.calls >= 1)
         /\ response' = OneResponse(r)
    /\ probe' = [answer |-> a, nf |-> nf]
    /\ tasks' = <<>>
    /\ phase' = "sent"
    /\ UNCHANGED << db0, history, services, engine, request, bg, run, sem, all_results, issued >>

Next ==
    \/ /\ phase = "idle"
       /\ \E req \in AllRequests(db, engine) : RequestAll(req)
    \/ /\ phase = "idle"
       /\ \E req \in OneRequests(db) : RequestOne(req)
    \/ BackgroundStart
    \/ \E p \in Waiting : Admit(p)
    \/ \E p \in InFlight :
          \E a \in EngineAnswers(engine, tasks[p].id), nf \in CommitFailures(engine, tasks[p].id) :
              ProbeReturn(p, a, nf)
    \/ \E p \in 1..Len(tasks) : SleepDone(p)
    \/ BatchDone
    \/ NextBatch
    \/ /\ phase = "single"
       /\ \E a \in EngineAnswers(engine, tasks[1].id), nf \in CommitFailures(engine, tasks[1].id) :
              OneReturn(a, nf)

Spec == Init /\ [][Next]_vars

\* The background-task facility runs a task that was added, after the response
\* was sent.
BackgroundSpec == Spec /\ WF_vars(BackgroundStart)

(* ------------------------ successive check_status ---------------------- *)
\* The request was answered and the next one arrives, later on the clock: a new
\* handler call with a new session and a new ChannelStatusService.
Again ==
    /\ phase = "sent"
    /\ request.op = "one"
    /\ Len(history) + 1 < MaxCalls
    /\ history' = Append(history, [request |-> request, probe |-> probe,
                                   response |-> response, at |-> now])
    /\ now' = now + 1
    /\ db0' = db
    /\ request' = NoRequest
    /\ phase' = "idle"
    /\ response' = NoResponse
    /\ probe' = NoProbe
    /\ issued' = 0
    /\ recorded' = FALSE
    /\ UNCHANGED << db, engine, bg, run, tasks, sem, all_results, services >>
\* check_status requests in succession against an engine that may answer
\* anything each time.
TwiceInit == Init /\ engine = "free"
TwiceNext ==
    \/ /\ phase = "idle"
       /\ \E req \in OneRequests(db) : RequestOne(req)
    \/ /\ phase = "single"
       /\ \E a \in EngineAnswers(engine, tasks[1].id),
             nf \in CommitFailures(engine, tasks[1].id) :
              OneReturn(a, nf)
    \/ Again
TwiceSpec == TwiceInit /\ [][TwiceNext]_vars

(* ------------------------------ cancellation --------------------------- *)
\* The task running check_multiple_channels is cancelled while it awaits gather
\* (line 236) or the pause between batches (line 253).  CancelledError is a
\* BaseException: `except Exception` (lines 243, 216, 135, 177) does not catch
\* it.  gather cancels its unfinished tasks and the finally block (lines
\* 245-249) cancels what is not done; a cancelled task leaves `async with`
\* (its slot is released) without a Status Recorder call.  CancelledError then
\* leaves check_multiple_channels: all_results, a local, is not returned.  An
\* inline request ends without a response; a background task ends cancelled
\* (`except Exception` of _background_status_check does not catch it either).
Cancel ==
    /\ run.state \in {"batch", "pause"}
    /\ run' = [run EXCEPT !.state = "cancelled"]
    /\ tasks' = [p \in 1..Len(tasks) |->
                   IF tasks[p].st = "done" THEN tasks[p]
                   ELSE Task("cancelled", tasks[p].id, NoOutcome)]
    /\ sem' = run.concurrency
    /\ IF phase = "inline"
       THEN phase' = "aborted" /\ bg' = bg
       ELSE phase' = phase /\ bg' = [bg EXCEPT !.state = "cancelled"]
    /\ UNCHANGED << db, db0, history, services, engine, now, request, response, all_results,
                    issued, recorded, probe >>
CancelNext == Next \/ Cancel
CancelSpec == Init /\ [][CancelNext]_vars

(* --------------------------- GET /status_summary ----------------------- *)
\* A table of nOn online, nOff offline and nUnk never-probed active channels
\* followed by nIn inactive ones (probed online today); of the probed active
\* channels the first nRecent were checked today, the others on an earlier day.
TableOf(nOn, nOff, nUnk, nIn, nRecent) ==
    [i \in 1..(nOn + nOff + nUnk + nIn) |->
        IF i <= nOn THEN Row(TRUE, "true", Null, IF i <= nRecent THEN DayStart ELSE 0)
        ELSE IF i <= nOn + nOff
          THEN Row(TRUE, "false", "Channel is not live", IF i <= nRecent THEN DayStart ELSE 0)
        ELSE IF i <= nOn + nOff + nUnk THEN NeverProbed(TRUE)
        ELSE Row(FALSE, "true", Null, DayStart)]
CountTables ==
    { TableOf(c[1], c[2], c[3], nIn, nRecent) :
        c \in (0..MaxCount) \X (0..MaxCount) \X (0..MaxCount),
        nIn \in 0..1, nRecent \in {0, 1, MaxCount, MaxCount + 1, 2 * MaxCount} }
SummaryRequest ==
    [op |-> "summary", has_body |-> FALSE, channel_ids |-> <<>>, concurrency |-> 0,
     has_limit |-> FALSE, limit |-> 0, id |-> 0]
\* get_channel_status_summary (channels.py, lines 70-76).
RequestSummary ==
    /\ phase = "idle"
    /\ request' = SummaryRequest
    /\ response' = Response(200, "", FALSE, 0, <<>>, get_channel_status_summary(db), NoOutcome)
    /\ phase' = "sent"
    /\ UNCHANGED << db, db0, history, services, engine, now, bg, run, tasks, sem, all_results,
                    issued, recorded, probe >>
SummaryInit ==
    /\ db \in CountTables
    /\ engine = "fixed"
    /\ db0 = db
    /\ now = DayStart
    /\ request = NoRequest
    /\ phase = "idle"
    /\ response = NoResponse
    /\ bg = NoBg
    /\ run = NoRun
    /\ tasks = <<>>
    /\ sem = 0
    /\ all_results = <<>>
    /\ issued = 0
    /\ recorded = FALSE
    /\ probe = NoProbe
    /\ history = <<>>
    /\ services = <<>>
SummarySpec == SummaryInit /\ [][RequestSummary]_vars

\* The event loop keeps running the tasks of a run: a step of the run that stays
\* possible is taken, and every engine request ends (in a response, a timeout or
\* an exception).
RunStep ==
    \/ \E p \in Waiting : Admit(p)
    \/ \E p \in InFlight :
          \E a \in EngineAnswers(engine, tasks[p].id), nf \in CommitFailures(engine, tasks[p].id) :
              ProbeReturn(p, a, nf)
    \/ \E p \in 1..Len(tasks) : SleepDone(p)
    \/ BatchDone
    \/ NextBatch
FairSpec == Spec /\ WF_vars(RunStep)

(* --------------------------- overlapping calls -------------------------- *)
\* channel_status_service.py:51  ... % 100000
Modulus == 100000
\* Handler calls and periodic tasks that overlap in a behaviour of OverlapSpec.
MaxServices == 2

\* Line 51: self._next_player_id = (self._next_player_id + 1) % 100000.
NextPlayerId(n) == (n + 1) % Modulus
\* The counter after c probes were issued one after the other.
RECURSIVE PlayerIdAfter(_, _)
PlayerIdAfter(n, c) == IF c = 0 THEN n ELSE NextPlayerId(PlayerIdAfter(n, c - 1))

\* One call in progress and the ChannelStatusService it created (channels.py
\* lines 101, 199 and 348, channel_status_task.py line 15): the service's
\* _next_player_id (0 at construction, line 28), and the call's semaphore (line
\* 207), list, loop index, tasks, results and response.  kind is "all"
\* (check_all_channels_status and its background task), "one"
\* (check_acestream_channel_status) or "periodic" (run_channel_status_task).
Service(kind, state, chs, k, i, value, npid, tsk, results, resp) ==
    [kind |-> kind, state |-> state, channels |-> chs, concurrency |-> k, i |-> i,
     sem |-> value, next_player_id |-> npid, tasks |-> tsk, all_results |-> results,
     response |-> resp]
\* A task and the pid parameter of the engine request it issued (line 59); -1
\* while it has issued none.
PidTask(st, id, result, pid) == [st |-> st, id |-> id, result |-> result, pid |-> pid]
\* The tasks of a batch run up to their first suspension: those that find a
\* slot free issue their requests one after the other.
IssuedTasks(batch, free, npid) ==
    [p \in 1..Len(batch) |->
        LET t == StartedTasks(batch, free)[p] IN
        PidTask(t.st, t.id, t.result,
                IF t.st = "inflight" THEN PlayerIdAfter(npid, p) ELSE -1)]
SvcInFlight(s) == {p \in 1..Len(services[s].tasks) : services[s].tasks[p].st = "inflight"}
SvcWaiting(s) == {p \in 1..Len(services[s].tasks) : services[s].tasks[p].st = "waiting"}
\* check_multiple_channels(chs, k) on a new service, up to its first await.
\* (a variant under one ceiling for all calls: a new run finds free only the
\* slots the probes already in flight leave of its concurrency)
BeginServiceSharedCeiling(chs, k, resp) ==
    LET others == Cardinality({sp \in (1..Len(services)) \X (1..BatchSize) :
                                  sp[2] \in SvcInFlight(sp[1])})
        free   == Max(k - others, 0)
    IN  Service("all", "batch", chs, k, 0, free - Admitted(Batch(chs, 0), free),
                PlayerIdAfter(0, Admitted(Batch(chs, 0), free)),
                IssuedTasks(Batch(chs, 0), free, 0), <<>>, resp)
BeginService(chs, k, resp) ==
    Service("all", "batch", chs, k, 0, k - Admitted(Batch(chs, 0), k),
            PlayerIdAfter(0, Admitted(Batch(chs, 0), k)),
            IssuedTasks(Batch(chs, 0), k, 0), <<>>, resp)
\* What OverlapSpec leaves alone: the variables of the single request of Spec.
single == << db0, history, engine, now, request, phase, response, bg, run, tasks, sem,
             all_results, issued, recorded, probe >>

\* check_all_channels_status arrives while other calls are in progress.
OvRequestAll(req) ==
    /\ Len(services) < MaxServices
    /\ LET found == Resolved(db, req)
           chs   == Limited(found, req)
           k     == Concurrency(req)
       IN  services' = Append(services,
             IF found = <<>>
             THEN Service("all", "sent", <<>>, k, 0, 0, 0, <<>>, <<>>,
                          NotFound("No channels found to check"))
             ELSE IF Deferred(chs)
             THEN Service("all", "queued", chs, k, 0, 0, 0, <<>>, <<>>, DeferredResponse(db, chs))
             ELSE IF chs = <<>>
             THEN Service("all", "returned", chs, k, 0, k, 0, <<>>, <<>>,
                          InlineResponse(db, chs, <<>>))
             ELSE BeginService(chs, k, NoResponse))
    /\ UNCHANGED << db, single >>
\* The background-task facility runs _background_status_check (lines 348-349).
OvBackgroundStart(s) ==
    /\ services[s].state = "queued"
    /\ services' = [services EXCEPT ![s] =
                       BeginService(services[s].channels, services[s].concurrency,
                                    services[s].response)]
    /\ UNCHANGED << db, single >>
\* A waiting task of call s takes a slot of the call's semaphore and issues its
\* engine request with the service's next player id.
OvAdmit(s, p) ==
    /\ services[s].state = "batch"
    /\ p \in SvcWaiting(s)
    /\ \A q \in SvcWaiting(s) : p <= q
    /\ services[s].sem > 0
    /\ LET pid == NextPlayerId(services[s].next_player_id) IN
       services' = [services EXCEPT
                      ![s].tasks[p] = PidTask("inflight", services[s].tasks[p].id, NoOutcome, pid),
                      ![s].sem = services[s].sem - 1,
                      ![s].next_player_id = pid]
    /\ UNCHANGED << db, single >>
\* The engine request of task p of call s ends (lines 212-225).
OvProbeReturn(s, p, a, nf) ==
    /\ services[s].state = "batch"
    /\ p \in SvcInFlight(s)
    /\ LET t == services[s].tasks[p]
           r == check_channel_status(db, now, t.id, a, nf)
       IN  /\ db' = r.db
           /\ services' =
                IF r.raised
                THEN [services EXCEPT
                        ![s].tasks[p] = PidTask("done", t.id, TaskError(t.id, r.exc), t.pid),
                        ![s].sem = Release(services[s].sem)]
                ELSE [services EXCEPT
                        ![s].tasks[p] = PidTask("sleeping", t.id, r.outcome, t.pid)]
    /\ UNCHANGED single
\* asyncio.sleep(1) of task p of call s is over (lines 214-215).
OvSleepDone(s, p) ==
    /\ services[s].state = "batch"
    /\ p \in 1..Len(services[s].tasks)
    /\ services[s].tasks[p].st = "sleeping"
    /\ services' = [services EXCEPT ![s].tasks[p].st = "done",
                                    ![s].sem = Release(services[s].sem)]
    /\ UNCHANGED << db, single >>
\* gather of call s returns (lines 236-255, and lines 146-161 of the handler).
OvBatchDone(s) ==
    /\ services[s].state = "batch"
    /\ \A p \in 1..Len(services[s].tasks) : services[s].tasks[p].st = "done"
    /\ LET sv      == services[s]
           results == sv.all_results \o [p \in 1..Len(sv.tasks) |-> sv.tasks[p].result]
       IN  services' = [services EXCEPT ![s] =
             IF sv.i + BatchSize < Len(sv.channels)
             THEN [sv EXCEPT !.state = "pause", !.tasks = <<>>, !.all_results = results]
             ELSE [sv EXCEPT !.state = "returned", !.tasks = <<>>, !.all_results = results,
                             !.response = IF sv.response.background THEN sv.response
                                          ELSE InlineResponse(db, sv.channels, results)]]
    /\ UNCHANGED << db, single >>
\* asyncio.sleep(2) of call s is over (lines 252-253): its next batch.
OvNextBatch(s) ==
    /\ services[s].state = "pause"
    /\ LET sv    == services[s]
           batch == Batch(sv.channels, sv.i + BatchSize)
       IN  services' = [services EXCEPT ![s] =
             [sv EXCEPT !.state = "batch", !.i = sv.i + BatchSize,
                        !.tasks = IssuedTasks(batch, sv.sem, sv.next_player_id),
                        !.sem = sv.sem - Admitted(batch, sv.sem),
                        !.next_player_id = PlayerIdAfter(sv.next_player_id,
                                                         Admitted(batch, sv.sem))]]
    /\ UNCHANGED << db, single >>
\* check_acestream_channel_status arrives (lines 194-200): no semaphore.
OvRequestOne(req) ==
    /\ Len(services) < MaxServices
    /\ services' = Append(services,
          IF Resolves(db, req.id)
          THEN Service("one", "single", <<req.id>>, 0, 0, 0, NextPlayerId(0),
                       << PidTask("inflight", req.id, NoOutcome, NextPlayerId(0)) >>,
                       <<>>, NoResponse)
          ELSE Service("one", "sent", <<>>, 0, 0, 0, 0, <<>>, <<>>,
                       NotFound("Acestream channel not found")))
    /\ UNCHANGED << db, single >>
\* Its engine request ends and the handler answers (lines 200-201).
OvOneReturn(s, a, nf) ==
    /\ services[s].state = "single"
    /\ LET r == check_channel_status(db, now, services[s].tasks[1].id, a, nf) IN
         /\ db' = r.db
         /\ services' = [services EXCEPT ![s].state = "sent", ![s].tasks = <<>>,
                                         ![s].response = OneResponse(r)]
    /\ UNCHANGED single
\* run_channel_status_task starts (channel_status_task.py, lines 12-20): every
\* active channel, probed one after the other without a semaphore.
OvPeriodic ==
    /\ Len(services) < MaxServices
    /\ LET chs == get_channels(db, Cardinality(DOMAIN db), TRUE) IN
       services' = Append(services,
          IF chs = <<>>
          THEN Service("periodic", "returned", chs, 0, 0, 0, 0, <<>>, <<>>, NoResponse)
          ELSE Service("periodic", "loop", chs, 0, 0, 0, NextPlayerId(0),
                       << PidTask("inflight", chs[1], NoOutcome, NextPlayerId(0)) >>,
                       <<>>, NoResponse))
    /\ UNCHANGED << db, single >>
\* The probe of the periodic task ends (lines 19-21): the next channel's probe
\* is issued, the loop ends after the last one, and an exception ends the task
\* (lines 23-24).
OvPeriodicReturn(s, a, nf) ==
    /\ services[s].state = "loop"
    /\ LET sv == services[s]
           r  == check_channel_status(db, now, sv.tasks[1].id, a, nf)
       IN  /\ db' = r.db
           /\ services' = [services EXCEPT ![s] =
                IF r.raised THEN [sv EXCEPT !.state = "failed", !.tasks = <<>>]
                ELSE IF sv.i + 1 < Len(sv.channels)
                THEN [sv EXCEPT !.i = sv.i + 1,
                                !.next_player_id = NextPlayerId(sv.next_player_id),
                                !.tasks = << PidTask("inflight", sv.channels[sv.i + 2], NoOutcome,
                                                     NextPlayerId(sv.next_player_id)) >>]
                ELSE [sv EXCEPT !.state = "returned", !.tasks = <<>>]]
    /\ UNCHANGED single

\* The requests that overlap: short lists and one list long enough to be
\* deferred, under every positive concurrency.
OverlapLists(d) == { <<1>>, <<1, 2>>, <<0>> \o LongList(d, Threshold + 1) }
OverlapRequests(d) ==
    { AllRequest(TRUE, ids, k, FALSE, 0) : ids \in OverlapLists(d), k \in 1..MaxConc }
OverlapInit == Init /\ engine = "faulty"
OverlapNext ==
    \/ \E req \in OverlapRequests(db) : OvRequestAll(req)
    \/ \E req \in OneRequests(db) : OvRequestOne(req)
    \/ OvPeriodic
    \/ \E s \in 1..Len(services) :
          \/ OvBackgroundStart(s)
          \/ \E p \in SvcWaiting(s) : OvAdmit(s, p)
          \/ \E p \in SvcInFlight(s) :
                \E a \in EngineAnswers(engine, services[s].tasks[p].id),
                   nf \in CommitFailures(engine, services[s].tasks[p].id) :
                      \/ OvProbeReturn(s, p, a, nf)
                      \/ OvOneReturn(s, a, nf)
                      \/ OvPeriodicReturn(s, a, nf)
          \/ \E p \in 1..Len(services[s].tasks) : OvSleepDone(s, p)
          \/ OvBatchDone(s)
          \/ OvNextBatch(s)
OverlapSpec == OverlapInit /\ [][OverlapNext]_vars

(* ============================== properties ============================== *)
Occurrences(seq, x) == Cardinality({j \in 1..Len(seq) : seq[j] = x})
Ids(results) == [j \in 1..Len(results) |-> results[j].channel_id]
Range(seq) == {seq[j] : j \in 1..Len(seq)}
IsAllResponse == request.op = "all" /\ response.code = 200
IsInlineResponse == IsAllResponse /\ ~response.background

\* C1: a run of check_multiple_channels that returns hands back exactly one
\* outcome per input occurrence: as many outcomes as channels, every id as often
\* among the outcomes as in the input.  So an inline response has
\* total_checked = len(results) = total_channels, and total_checked is below
\* total_channels in a deferred response only.
C1_ExactlyOneOutcomePerInput ==
    /\ run.state = "returned" =>
          /\ Len(all_results) = Len(run.channels)
          /\ \A x \in Range(run.channels) \cup Range(Ids(all_results)) :
                Occurrences(Ids(all_results), x) = Occurrences(run.channels, x)
    /\ IsInlineResponse =>
          /\ response.results = all_results
          /\ response.total_checked = Len(response.results)
          /\ response.total_checked = response.total_channels
    /\ IsAllResponse /\ response.total_checked < response.total_channels =>
          response.background
\* An inline run over a list with a repeated id has returned, one of its probes
\* having raised.
C1_Witness ==
    /\ IsInlineResponse
    /\ run.state = "returned"
    /\ Len(run.channels) = 2
    /\ run.channels[1] = run.channels[2]
    /\ all_results[1].status = "error"
    /\ all_results[2].status = "online"

\* C2: while a run is in a batch, at most `concurrency` calls of
\* check_channel_status are started and not finished.
C2_InFlightAtMostConcurrency ==
    run.state = "batch" => Cardinality(InFlight) <= run.concurrency
\* A full batch under concurrency 2: two probes in flight, others waiting, others
\* done.
C2_Witness ==
    /\ run.state = "batch"
    /\ run.concurrency = 2
    /\ Len(tasks) = BatchSize
    /\ Cardinality(InFlight) = 2
    /\ Waiting # {}
    /\ \E p \in 1..Len(tasks) : tasks[p].st = "done"

\* C3: under fair scheduling a run with concurrency >= 1 returns, whatever the
\* outcomes of its channels; it hands back outcomes only, the worst of them with
\* status "error".
C3_RunReturns ==
    /\ (run.state = "batch" /\ run.concurrency >= 1) ~> (run.state = "returned")
    /\ [](\A j \in 1..Len(all_results) :
             all_results[j].status \in {"online", "offline", "error"})
\* A run under concurrency 1 has returned although the probe of its first channel
\* raised: the second channel was probed after it.
C3_Witness ==
    /\ run.state = "returned"
    /\ run.concurrency = 1
    /\ Len(all_results) = 2
    /\ all_results[1].status = "error"
    /\ all_results[2].status = "offline"

\* The list handed to check_multiple_channels, inline or through the
\* background-task facility.
Probed == IF bg.state # "none" THEN bg.channels ELSE run.channels

\* C4: a list of more than 20 channels is deferred: the response is built before
\* any probe of the list is issued, with total_checked = 0, no results, zero
\* counts, total_channels the length of the list and the summary of the table as
\* it was before any probe wrote; a list of 20 or fewer is probed inline.
C4_DeferredAboveThreshold ==
    /\ IsAllResponse /\ Len(Probed) > Threshold =>
          /\ response.background
          /\ response.total_checked = 0
          /\ response.results = <<>>
          /\ response.online_count = 0
          /\ response.offline_count = 0
          /\ response.total_channels = Len(Probed)
          /\ response.summary = get_channel_status_summary(db0)
    /\ IsAllResponse /\ Len(Probed) <= Threshold => ~response.background
    /\ phase = "inline" => Len(Probed) <= Threshold /\ bg.state = "none"
    /\ bg.state # "none" => IsAllResponse /\ response.background
    /\ bg.state = "queued" => issued = 0 /\ ~recorded /\ db = db0
\* The deferred run of 21 channels has ended and has changed what the summary
\* would say; the response still carries the summary of the table before it.
C4_Witness ==
    /\ IsAllResponse
    /\ response.background
    /\ response.total_channels = Threshold + 1
    /\ bg.state = "done"
    /\ response.summary.online > 0
    /\ response.summary # get_channel_status_summary(db)

\* C5 as stated: in an inline response, every active probed channel is classified
\* (by the table the summary was read from) by the is_online of its last outcome
\* in results.
C5_ClassifiedByLastOutcome ==
    IsInlineResponse =>
        /\ response.summary = get_channel_status_summary(db)
        /\ \A j \in 1..Len(response.results) :
              LET o == response.results[j] IN
              (/\ db[o.channel_id].is_active
               /\ \A l \in (j + 1)..Len(response.results) :
                     response.results[l].channel_id # o.channel_id)
                 => db[o.channel_id].is_online = Tri(o.is_online)
\* C5 amended: in an inline response every probe of the run has finished and the
\* summary is that of the table as the run left it (nothing is written after it
\* is read).  A probed channel is classified by the outcome whose write was
\* committed last: the table holds, for an id with an outcome other than the
\* task-level "error" outcome, the is_online and error of one such outcome of
\* that id (of its only one when the id occurs once); an id whose probes all
\* raised keeps the row it had.
Committed(results, x) ==
    {j \in 1..Len(results) : results[j].channel_id = x /\ results[j].status # "error"}
C5_SummaryAfterLastWrite ==
    IsInlineResponse =>
        /\ run.state = "returned"
        /\ tasks = <<>>
        /\ response.summary = get_channel_status_summary(db)
        /\ \A x \in Range(run.channels) :
              IF Committed(response.results, x) = {}
              THEN db[x] = db0[x]
              ELSE \E j \in Committed(response.results, x) :
                      /\ db[x].is_online = Tri(response.results[j].is_online)
                      /\ db[x].check_error = response.results[j].error
                      /\ db[x].last_checked = now
\* An inline run probed the same active channel twice; the probe first in the
\* list wrote last, so the table disagrees with the last outcome in results.
C5_Witness ==
    /\ IsInlineResponse
    /\ Len(response.results) = 2
    /\ response.results[1].channel_id = response.results[2].channel_id
    /\ response.results[1].is_online
    /\ response.results[2].status = "offline"
    /\ db[response.results[1].channel_id].is_active
    /\ db[response.results[1].channel_id].is_online = "true"
    /\ response.summary.online = 1

\* C6: without a limit, the list probed is the supplied ids that resolve, in
\* request order with duplicates kept; or, when no ids are supplied, every active
\* channel and no inactive one.
C6_SelectsRequestedOrAllActive ==
    (request.op = "all" /\ phase # "idle" /\ ~(request.has_limit /\ request.limit # 0)) =>
        IF request.has_body /\ request.channel_ids # <<>>
        THEN Probed = SelectSeq(request.channel_ids, LAMBDA id : id \in DOMAIN db0)
        ELSE Range(Probed) = {id \in DOMAIN db0 : db0[id].is_active}

\* C7: a limit L >= 1 cuts the resolved list to its first min(L, n) channels
\* before the comparison with the threshold: the dispatch decision and
\* total_channels use the cut list, and an inline response has total_checked
\* equal to its length.
C7_LimitBeforeThreshold ==
    (/\ request.op = "all" /\ phase # "idle" /\ response.code # 404
     /\ request.has_limit /\ request.limit >= 1) =>
        LET found == Resolved(db0, request)
            chs   == SubSeq(found, 1, Min(request.limit, Len(found)))
        IN  /\ Probed = chs
            /\ Len(chs) <= Threshold =>
                  /\ bg.state = "none"
                  /\ IsAllResponse =>
                        /\ ~response.background
                        /\ response.total_channels = Len(chs)
                        /\ response.total_checked = Len(chs)
            /\ Len(chs) > Threshold =>
                  /\ response.background
                  /\ response.total_channels = Len(chs)
\* More than 20 channels resolved, a limit of 20: probed inline, 20 checked.
C7_Witness ==
    /\ request.op = "all"
    /\ request.has_limit
    /\ request.limit = Threshold
    /\ Len(Resolved(db0, request)) > Threshold
    /\ IsInlineResponse
    /\ response.total_checked = request.limit

\* C8: a request whose list to probe is empty gets the 404 'No channels found to
\* check', and nothing is probed, deferred or written.
C8_EmptyListIsNotFound ==
    (/\ request.op = "all" /\ phase = "sent"
     /\ Limited(Resolved(db0, request), request) = <<>>) =>
        /\ response.code = 404
        /\ response.detail = "No channels found to check"
        /\ run.state = "none"
        /\ bg.state = "none"
        /\ issued = 0
        /\ ~recorded

\* C9: check_status on an id that resolves to no stored channel answers 404
\* without a request to the engine and leaves the table as it was.
C9_UnknownIdNotFound ==
    (request.op = "one" /\ request.id \notin DOMAIN db0) =>
        /\ phase = "sent"
        /\ response.code = 404
        /\ issued = 0
        /\ ~recorded
        /\ db = db0
\* The 404 against a table that holds channels.
C9_Witness ==
    /\ request.op = "one"
    /\ request.id \notin DOMAIN db0
    /\ DOMAIN db0 # {}
    /\ response.code = 404
    /\ response.detail = "Acestream channel not found"

\* C10: a 200 response whose body carries the newer-download text in its error
\* field, in any letter case and with anything around it, makes check_status
\* return online with no error and persist is_online = true with the error
\* cleared.
HasNewerDownloadText(a) ==
    /\ a.kind = "http"
    /\ a.status = 200
    /\ a.body.kind = "dict"
    /\ a.body.error \in { "got newer download", "Got Newer Download",
                          "failed: GOT NEWER DOWNLOAD (retry)" }
C10_NewerDownloadIsOnline ==
    (request.op = "one" /\ phase = "sent" /\ HasNewerDownloadText(probe.answer)) =>
        /\ response.code = 200
        /\ response.outcome.is_online
        /\ response.outcome.status = "online"
        /\ response.outcome.error = Null
        /\ db[request.id].is_online = "true"
        /\ db[request.id].check_error = Null

\* The engine answers the Probe Client reads as a failure of the request, and
\* the text it reports for each.
IsFailure(a) ==
    \/ a.kind \in {"timeout", "transport"}
    \/ a.kind = "http" /\ (a.status # 200 \/ a.body.kind = "unparseable")
FailureText(a) ==
    CASE a.kind = "timeout"   -> "Request timeout"
      [] a.kind = "transport" -> a.text
      [] a.kind = "http" /\ a.status # 200 -> "HTTP " \o ToString(a.status)
      [] OTHER -> "Invalid response format: " \o a.body.detail

\* C11: a probe whose request times out, fails in transport, gets a non-2xx
\* status or an unparseable body yields status "error", is_online false and the
\* message of its case; in a batch against the stable engine the channels it
\* reports live are online, those that time out or answer HTTP 500 are "error"
\* outcomes with their message, and online_count / offline_count count the two
\* groups.
C11_FailuresAreErrorOutcomes ==
    /\ (request.op = "one" /\ phase = "sent" /\ IsFailure(probe.answer)) =>
          /\ response.outcome.status = "error"
          /\ ~response.outcome.is_online
          /\ response.outcome.message = FailureText(probe.answer)
    /\ (IsInlineResponse /\ engine = "fixed") =>
          /\ \A j \in 1..Len(response.results) :
                LET o == response.results[j]
                    a == FixedAnswer(o.channel_id)
                IN  IF IsFailure(a)
                    THEN /\ o.status = "error"
                         /\ ~o.is_online
                         /\ o.message = FailureText(a)
                    ELSE o.status = "online" /\ o.is_online
          /\ response.online_count =
                Cardinality({j \in 1..Len(response.results) :
                               ~IsFailure(FixedAnswer(response.results[j].channel_id))})
          /\ response.offline_count =
                Cardinality({j \in 1..Len(response.results) :
                               IsFailure(FixedAnswer(response.results[j].channel_id))})

\* C12: a failing Status Recorder call changes nothing for the caller:
\* check_status answers 200 with the outcome the engine's answer determines
\* (the one returned when no commit fails), and every outcome a batch collects
\* is the outcome some engine answer determines.
C12_PersistenceIsBestEffort ==
    /\ (request.op = "one" /\ phase = "sent" /\ response.code # 404) =>
          /\ response.code = 200
          /\ response.outcome =
                check_channel_status(db0, now, request.id, probe.answer, 0).outcome
    /\ \A j \in 1..Len(all_results) :
          \E a \in EngineAnswers(engine, all_results[j].channel_id) :
              all_results[j] =
                check_channel_status(db0, now, all_results[j].channel_id, a, 0).outcome

\* C13: after two successive check_status calls on the same channel the stored
\* is_online, check_error and last_checked are those of the second call (its
\* outcome, its time), an online result leaving no stored error; when the
\* engine gives both calls the same answer and that answer is not an online
\* one, both returned outcomes have is_online = false.
AnswerIsOnline(a) == check_channel_status(<<>>, 0, 0, a, 0).outcome.is_online
C13_SecondCallReplaces ==
    (/\ phase = "sent" /\ request.op = "one" /\ Len(history) = 1
     /\ history[1].request.id = request.id
     /\ response.code = 200) =>
        /\ now > history[1].at
        /\ db[request.id] = Row(db0[request.id].is_active,
                                Tri(response.outcome.is_online),
                                response.outcome.error, now)
        /\ response.outcome.is_online => db[request.id].check_error = Null
        /\ (/\ history[1].response.code = 200
            /\ history[1].probe.answer = probe.answer
            /\ ~AnswerIsOnline(probe.answer)) =>
               /\ ~history[1].response.outcome.is_online
               /\ ~response.outcome.is_online
\* The first call stored an error text, the second found the channel online:
\* the row holds the second call's values only.
C13_Witness ==
    /\ phase = "sent" /\ request.op = "one" /\ Len(history) = 1
    /\ history[1].request.id = request.id
    /\ history[1].response.code = 200
    /\ history[1].response.outcome.error = "unknown infohash"
    /\ db0[request.id].check_error = "unknown infohash"
    /\ db0[request.id].last_checked = history[1].at
    /\ response.code = 200
    /\ response.outcome.is_online
    /\ db[request.id].is_online = "true"
    /\ db[request.id].check_error = Null
    /\ db[request.id].last_checked = now

\* The outcome the stable engine's answer determines for a channel.
FixedOutcome(id) == check_channel_status(<<>>, 0, id, FixedAnswer(id), 0).outcome
\* C14: against an engine whose answer depends on the channel id alone, what a
\* run returns and what it leaves persisted is a function of the list alone:
\* for every concurrency and interleaving the results are the outcomes the
\* engine's answers determine, and every probed channel's stored is_online and
\* check_error are those of its outcome.
C14_ResultsIndependentOfConcurrency ==
    (engine = "fixed" /\ run.state = "returned") =>
        /\ all_results = [j \in 1..Len(run.channels) |-> FixedOutcome(run.channels[j])]
        /\ \A x \in Range(run.channels) :
              /\ db[x].is_online = Tri(FixedOutcome(x).is_online)
              /\ db[x].check_error = FixedOutcome(x).error
\* A run of two batches under concurrency 2 has returned, with online and
\* offline outcomes of repeated channels.
C14_Witness ==
    /\ engine = "fixed"
    /\ run.state = "returned"
    /\ run.concurrency = 2
    /\ Len(run.channels) > BatchSize
    /\ \E j \in 1..Len(all_results) : all_results[j].is_online
    /\ \E j \in 1..Len(all_results) : ~all_results[j].is_online
    /\ \E x \in Range(run.channels) : Occurrences(run.channels, x) > 1

\* The active rows of the table a summary response was computed from, by their
\* stored is_online.
ActiveWith(online) == {i \in DOMAIN db : db[i].is_active /\ db[i].is_online = online}
IsSummaryResponse == request.op = "summary" /\ response.code = 200

\* C15: in a status summary online, offline and unknown count the channels with
\* is_online true, false and neither; the three add up to total_channels, a
\* never-probed channel being unknown and not offline; recent_checks is at most
\* total_channels.
C15_BucketsPartition ==
    IsSummaryResponse =>
        LET sm == response.summary IN
        /\ sm.online = Cardinality(ActiveWith("true"))
        /\ sm.offline = Cardinality(ActiveWith("false"))
        /\ sm.unknown = Cardinality(ActiveWith("null"))
        /\ sm.online + sm.offline + sm.unknown = sm.total_channels
        /\ sm.recent_checks <= sm.total_channels
\* A summary over online, offline and never-probed channels, and an inactive one.
C15_Witness ==
    /\ IsSummaryResponse
    /\ response.summary.online = 2
    /\ response.summary.offline = 1
    /\ response.summary.unknown = 3
    /\ response.summary.total_channels = 6
    /\ Cardinality(DOMAIN db) = 7
    /\ response.summary.recent_checks = 1

\* C16: the two percentages (in tenths) are online / total x 100 and
\* recent_checks / total x 100 at their nearest tenth, 0 for an empty table and
\* within 0..100; 4 online, 3 offline and 3 unknown channels give 40.0 and
\* unknown = 3.
NearestTenth(pct, num, den) ==
    /\ 2 * (pct * den - num * 1000) <= den
    /\ 2 * (num * 1000 - pct * den) <= den
C16_PercentagesRounded ==
    IsSummaryResponse =>
        LET sm == response.summary IN
        /\ sm.total_channels = 0 => sm.online_percentage = 0 /\ sm.checked_percentage = 0
        /\ sm.total_channels > 0 =>
              /\ NearestTenth(sm.online_percentage, sm.online, sm.total_channels)
              /\ NearestTenth(sm.checked_percentage, sm.recent_checks, sm.total_channels)
        /\ sm.online_percentage \in 0..1000
        /\ sm.checked_percentage \in 0..1000
        /\ (/\ Cardinality(ActiveWith("true")) = 4
            /\ Cardinality(ActiveWith("false")) = 3
            /\ Cardinality(ActiveWith("null")) = 3) =>
               sm.online_percentage = 400 /\ sm.unknown = 3
\* The summary of 4 online, 3 offline and 3 never-probed channels.
C16_Witness ==
    /\ IsSummaryResponse
    /\ response.summary.total_channels = 10
    /\ response.summary.online = 4
    /\ response.summary.offline = 3
    /\ response.summary.unknown = 3
    /\ response.summary.online_percentage = 400
    /\ response.summary.recent_checks = 1
    /\ response.summary.checked_percentage = 100

Sleeping == {p \in 1..Len(tasks) : tasks[p].st = "sleeping"}
\* The outcomes of the tasks that have ended and of the batches collected.
Collected ==
    Range(all_results) \cup {tasks[p].result : p \in {q \in 1..Len(tasks) : tasks[q].st = "done"}}
\* C17: a check_channel_status that raises inside a batch task becomes one
\* outcome of its channel with status "error", is_online false and the
\* exception's text as message and error; its slot is released (the slots held
\* are those of the probes in flight and of the sleeping tasks); the other
\* tasks and the later batches contribute their outcomes: the run returns one
\* outcome per channel, in order, those of the channels whose probe did not
\* raise being what the engine's answer determines.
C17_TaskErrorIsAnOutcome ==
    /\ \A o \in Collected :
          o.status = "error" =>
             /\ ~o.is_online
             /\ o.message = DbErr
             /\ o.error = DbErr
    /\ run.state = "batch" =>
          sem + Cardinality(InFlight) + Cardinality(Sleeping) = run.concurrency
    /\ run.state = "returned" => Ids(all_results) = run.channels
    /\ (run.state = "returned" /\ engine = "faulty") =>
          \A j \in 1..Len(all_results) :
             all_results[j] =
                IF FixedAnswer(run.channels[j]).kind = "timeout"
                THEN TaskError(run.channels[j], DbErr)
                ELSE FixedOutcome(run.channels[j])
\* A run of two batches has returned; probes raised in both batches and the
\* channels between and after them have their outcomes.
C17_Witness ==
    /\ engine = "faulty"
    /\ run.state = "returned"
    /\ Len(all_results) = 2 * BatchSize
    /\ all_results[2].status = "error"
    /\ all_results[3].status = "online"
    /\ all_results[BatchSize + 1].status = "online"
    /\ all_results[2 * BatchSize].status = "error"

\* The stored is_online and check_error of channel id are those of outcome o.
Persisted(d, id, o) ==
    /\ d[id].is_online = Tri(o.is_online)
    /\ d[id].check_error = o.error
\* C18: whenever a probe ends with an outcome (in a batch task, or in
\* check_status), a Status Recorder call was made by then, and when
\* check_channel_status returned the outcome (its last call committed) the
\* channel's stored is_online and check_error are the outcome's at that moment.
C18_OutcomeAfterRecorderCall ==
    [][ /\ \A p \in 1..Len(tasks) :
             (/\ tasks[p].st = "inflight"
              /\ p \in DOMAIN tasks'
              /\ tasks'[p].st \in {"sleeping", "done"}) =>
                 /\ recorded'
                 /\ tasks'[p].result.channel_id = tasks[p].id
                 /\ tasks'[p].result.status # "error" =>
                       Persisted(db', tasks[p].id, tasks'[p].result)
        /\ (phase = "single" /\ phase' = "sent") =>
                 /\ recorded'
                 /\ response'.code = 200 => Persisted(db', request.id, response'.outcome)
      ]_vars
\* The first probe of a batch has ended with the HTTP error outcome and sleeps;
\* its outcome is stored while another probe is still in flight.
C18_Witness ==
    /\ run.state = "batch"
    /\ recorded
    /\ InFlight # {}
    /\ \E p \in Sleeping :
          /\ tasks[p].result.message = "HTTP 500"
          /\ Persisted(db, tasks[p].id, tasks[p].result)
          /\ db[tasks[p].id].last_checked = now
          /\ db0[tasks[p].id].is_online = "null"

\* C19: a 200 response with a JSON object that is not the newer-download case
\* is online when the object has no error and its live flag is set; otherwise
\* offline with is_online false and the upstream error text as message, or
\* "Channel is not live" when there is none; so an object with a set live flag
\* and another error is offline with that error's text.
C19_InterpretationOrder ==
    (/\ request.op = "one" /\ phase = "sent"
     /\ probe.answer.kind = "http" /\ probe.answer.status = 200
     /\ probe.answer.body.kind = "dict"
     /\ ~HasNewerDownloadText(probe.answer)) =>
        LET b == probe.answer.body
            o == response.outcome
        IN  /\ response.code = 200
            /\ IF b.error = Null /\ b.has_response /\ b.is_live = 1
               THEN o.is_online /\ o.status = "online"
               ELSE /\ ~o.is_online
                    /\ o.status = "offline"
                    /\ o.message = IF b.error \notin {Null, ""} THEN b.error
                                   ELSE "Channel is not live"

\* C20: when the run is cancelled while a batch is in flight, its probe tasks
\* that had not ended are cancelled and no later batch starts, and the call
\* returns, without raising, the outcomes of the batches completed before: the
\* run has returned (an inline request answers with them as its results).
CancelledMidBatch == \E p \in 1..Len(tasks) : tasks[p].st = "cancelled"
C20_CancelReturnsPartialResult ==
    CancelledMidBatch =>
        /\ InFlight = {} /\ Waiting = {} /\ Sleeping = {}
        /\ Len(all_results) = run.i
        /\ run.state = "returned"
        /\ (bg.state = "none") =>
              /\ phase = "sent"
              /\ response.code = 200
              /\ response.results = all_results

\* Task p's probe ends in this step: check_channel_status returned (the task
\* sleeps) or raised (the task is done).
ProbeEnds(p) ==
    /\ run.state = "batch"
    /\ p \in 1..Len(tasks)
    /\ tasks[p].st = "inflight"
    /\ p \in DOMAIN tasks'
    /\ tasks'[p].st \in {"sleeping", "done"}
\* C21: duplicate ids are probed independently: a run that returns has issued
\* as many engine requests as its list has entries and holds, for every id, as
\* many outcomes as the id has occurrences.  A probe that returns an outcome
\* replaces its channel's record as a whole by that outcome's values (so the
\* record is always the one of the write that happened last, never a mix of two
\* writes), a probe that raises leaves it alone, and no probe changes the record
\* of another channel; nothing else in a run writes.
C21_DuplicatesRaceLastWriterWins ==
    /\ [](run.state = "returned" =>
            /\ issued = Len(run.channels)
            /\ \A x \in Range(run.channels) :
                  Occurrences(Ids(all_results), x) = Occurrences(run.channels, x))
    /\ [][ /\ \A p \in 1..Len(tasks) :
                ProbeEnds(p) =>
                   LET x == tasks[p].id IN
                   /\ DOMAIN db' = DOMAIN db
                   /\ \A y \in DOMAIN db \ {x} : db'[y] = db[y]
                   /\ tasks'[p].st = "sleeping" =>
                         db'[x] = Row(db[x].is_active, Tri(tasks'[p].result.is_online),
                                      tasks'[p].result.error, now)
                   /\ tasks'[p].st = "done" => db'[x] = db[x]
           /\ (run.state # "none" /\ \A p \in 1..Len(tasks) : ~ProbeEnds(p)) => db' = db
         ]_vars
\* Two probes of the same channel ran at the same time; the one first in the
\* list wrote last (its online outcome is the record, the other's error text is
\* gone), and the other stored channel still has the record it had.
C21_Witness ==
    /\ run.state = "batch"
    /\ run.concurrency = 2
    /\ Len(tasks) = 2
    /\ tasks[1].id = tasks[2].id
    /\ tasks[1].st = "sleeping"
    /\ tasks[2].st = "sleeping"
    /\ tasks[1].result.is_online
    /\ tasks[2].result.error = "unknown infohash"
    /\ db[tasks[1].id] = Row(TRUE, "true", Null, now)
    /\ db0[tasks[1].id].check_error = "Request timeout"
    /\ \E y \in DOMAIN db \ {tasks[1].id} : db[y] = db0[y] /\ db[y].check_error = "Request timeout"

TaskIds == [p \in 1..Len(tasks) |-> tasks[p].id]
\* C22: batches are strictly sequential.  While a run is in a batch its tasks
\* are those of the chunk of 10 at its index (a multiple of 10), the chunks
\* before it are collected, at most 10 tasks exist and at most
\* min(concurrency, 10) probes are in flight.  A batch is left only when all its
\* tasks are done: into the inter-batch pause when channels remain, into the
\* return (with no pause) after the last chunk.  The tasks of the next chunk are
\* created only out of the pause, when no task of the chunk before is left.
C22_BatchesAreSequential ==
    /\ [](run.state = "batch" =>
            /\ run.i % BatchSize = 0
            /\ run.i < Len(run.channels)
            /\ Len(all_results) = run.i
            /\ Len(tasks) <= BatchSize
            /\ TaskIds = SubSeq(run.channels, run.i + 1,
                                Min(run.i + BatchSize, Len(run.channels)))
            /\ Cardinality(InFlight) <= Min(run.concurrency, BatchSize))
    /\ [](run.state = "pause" => tasks = <<>> /\ run.i + BatchSize < Len(run.channels))
    /\ [][ /\ (run.state = "batch" /\ run'.state # "batch") =>
                /\ AllDone
                /\ run'.state = IF run.i + BatchSize < Len(run.channels)
                                THEN "pause" ELSE "returned"
           /\ (run'.state = "batch" /\ run.state # "batch") =>
                \/ run.state = "none" /\ run'.i = 0
                \/ run.state = "pause" /\ tasks = <<>> /\ run'.i = run.i + BatchSize
           /\ (run.state = "batch" /\ run'.state = "batch") =>
                run'.i = run.i /\ TaskIds' = TaskIds
           /\ run.state = "pause" => run'.state \in {"pause", "batch"}
         ]_vars
\* The third chunk of a deferred run of 21 channels is being probed: it has one
\* task, and the 20 outcomes of the first two chunks are collected.
C22_Witness ==
    /\ run.state = "batch"
    /\ Len(run.channels) = 2 * BatchSize + 1
    /\ run.i = 2 * BatchSize
    /\ Len(tasks) = 1
    /\ Len(all_results) = 2 * BatchSize
    /\ run.concurrency = 2
    /\ InFlight = {1}

\* C23: in a batch run the end of every probe, by an online outcome, an offline
\* outcome or a raised exception, is followed by the inter-request delay with
\* the slot still held: the task sleeps, the semaphore is not released and no
\* waiting probe is admitted in that step.
C23_DelayBeforeRelease ==
    [][ \A p \in 1..Len(tasks) :
           ProbeEnds(p) =>
              /\ tasks'[p].st = "sleeping"
              /\ sem' = sem
              /\ Waiting' = Waiting
      ]_vars

\* The probes in flight in the overlapping calls, each by its call and task.
ProbesInFlight == {sp \in (1..Len(services)) \X (1..BatchSize) : sp[2] \in SvcInFlight(sp[1])}
PidOf(sp) == services[sp[1]].tasks[sp[2]].pid
\* C24: the player id sent with a probe is in 0..99999 and is the id after the
\* one its service used before (the service's counter is the id of the probe it
\* issued last), and any two probes in flight at the same time carry distinct
\* player ids.
C24_PlayerIdsDistinct ==
    /\ \A sp \in ProbesInFlight : PidOf(sp) \in 0..(Modulus - 1)
    /\ \A s \in 1..Len(services) :
          \A p \in SvcInFlight(s) :
             \A q \in SvcInFlight(s) :
                p < q => /\ services[s].tasks[p].pid < services[s].tasks[q].pid
                         /\ services[s].tasks[q].pid <= services[s].next_player_id
    /\ \A sp \in ProbesInFlight :
          \A sq \in ProbesInFlight : sp # sq => PidOf(sp) # PidOf(sq)

\* check_multiple_channels is entered in this step.
Begins == run.state = "none" /\ run'.state # "none"
\* C25: a deferred run is eventually started by the background facility, once,
\* on the list and the concurrency resolved for the request (a list of more
\* than 20 channels); an exception of the run ends the background task without
\* being raised to anyone; the response, sent before the run, carries no result
\* and is not changed by it.
C25_DeferredRunsOnce ==
    /\ (bg.state = "queued") ~> (bg.state \in {"running", "failed"})
    /\ [](bg.state # "none" =>
            /\ bg.channels = Limited(Resolved(db0, request), request)
            /\ bg.concurrency = Concurrency(request)
            /\ Len(bg.channels) > Threshold
            /\ phase = "sent"
            /\ response.code = 200
            /\ response.background
            /\ response.results = <<>>
            /\ response.total_checked = 0)
    /\ [](bg.state = "queued" => run.state = "none")
    /\ [](bg.state \in {"running", "done", "failed"} =>
            /\ run.channels = bg.channels
            /\ run.concurrency = bg.concurrency
            /\ bg.state = "failed" <=> run.state = "raised"
            /\ bg.state = "done" <=> run.state = "returned")
    /\ [][ /\ (bg.state # "none" /\ Begins) =>
                bg.state = "queued" /\ bg'.state \in {"running", "failed"}
           /\ bg.state \in {"running", "done", "failed"} =>
                /\ ~Begins
                /\ bg'.state # "queued"
                /\ bg'.channels = bg.channels
                /\ bg'.concurrency = bg.concurrency
           /\ bg.state # "none" => response' = response
         ]_vars
\* The deferred run of 21 channels was started with a negative concurrency:
\* the semaphore could not be created, the task ended, the caller's response is
\* the one sent before and nothing was probed.
C25_Witness ==
    /\ bg.state = "failed"
    /\ run.state = "raised"
    /\ bg.concurrency < 0
    /\ Len(bg.channels) = Threshold + 1
    /\ response.code = 200
    /\ response.background
    /\ issued = 0
    /\ db = db0

\* C26: the result list of check_multiple_channels is in input order, whatever
\* the concurrency and the order in which the probes end: the outcomes collected
\* so far are those of the first channels of the list, position by position,
\* every task that has ended holds the outcome of its own channel, and a run
\* that returned (and the inline response built from it) has the outcome of
\* channels[j] at position j for every j.
C26_ResultsInInputOrder ==
    /\ run.state \in {"batch", "pause", "returned"} =>
          /\ Len(all_results) <= Len(run.channels)
          /\ \A j \in 1..Len(all_results) : all_results[j].channel_id = run.channels[j]
          /\ \A p \in 1..Len(tasks) :
                tasks[p].st \in {"sleeping", "done"} =>
                   tasks[p].result.channel_id = run.channels[run.i + p]
    /\ run.state = "returned" => DOMAIN all_results = DOMAIN run.channels
    /\ IsInlineResponse =>
          /\ DOMAIN response.results = DOMAIN run.channels
          /\ \A j \in 1..Len(response.results) :
                response.results[j].channel_id = run.channels[j]
\* In the second batch of a run under concurrency 2 the probe of the second
\* channel has ended (it raised, and releases its slot without the delay) and
\* the third is in flight while the first still sleeps; the ten outcomes of the
\* first batch are collected in list order.
C26_Witness ==
    /\ run.state = "batch"
    /\ run.concurrency = 2
    /\ run.i = BatchSize
    /\ Len(all_results) = BatchSize
    /\ all_results[1].channel_id # all_results[2].channel_id
    /\ tasks[1].st = "sleeping"
    /\ tasks[2].st = "done"
    /\ tasks[3].st = "inflight"
    /\ tasks[1].id # tasks[2].id

SvcSleeping(s) == {p \in 1..Len(services[s].tasks) : services[s].tasks[p].st = "sleeping"}
IsRun(s) == services[s].kind = "all" /\ services[s].state = "batch"
\* C27: the concurrency ceiling is per run.  Every run has its own semaphore:
\* its value, its probes in flight and its sleeping tasks add up to the run's
\* own concurrency whatever the other calls do, and its probes in flight are at
\* most its concurrency.  A step of one call changes nothing of another call,
\* so a probe is admitted by its own run's semaphore alone.  A check_status
\* call and the periodic task hold no semaphore (their concurrency and
\* semaphore fields stay 0) and have their probe in flight from the step they
\* arrive in, whatever is in flight already.
C27_CeilingIsPerRun ==
    /\ [](\A s \in 1..Len(services) :
            IF services[s].kind = "all"
            THEN IsRun(s) =>
                   /\ Cardinality(SvcInFlight(s)) <= services[s].concurrency
                   /\ services[s].sem + Cardinality(SvcInFlight(s)) + Cardinality(SvcSleeping(s))
                         = services[s].concurrency
            ELSE /\ services[s].sem = 0
                 /\ services[s].concurrency = 0
                 /\ services[s].state \in {"single", "loop"} => SvcInFlight(s) = {1})
    /\ [][ \A s \in 1..Len(services) :
              services'[s] # services[s] =>
                 \A t \in 1..Len(services) : t # s => services'[t] = services[t]
         ]_vars
    /\ [][ Len(services') > Len(services) =>
              /\ Len(services') = Len(services) + 1
              /\ SubSeq(services', 1, Len(services)) = services
         ]_vars
\* Two runs overlap, each with concurrency 2 and both its probes in flight:
\* four probes against the engine at once.
C27_Witness ==
    /\ Len(services) = 2
    /\ IsRun(1) /\ IsRun(2)
    /\ services[1].concurrency = 2
    /\ services[2].concurrency = 2
    /\ Cardinality(SvcInFlight(1)) = 2
    /\ Cardinality(SvcInFlight(2)) = 2
    /\ Cardinality(ProbesInFlight) = 4
    /\ services[1].sem = 0

\* C28: a request with concurrency 0 is served like any other, and when its
\* list is not empty the run never gets anywhere: it stays in its first batch
\* with every task waiting for the semaphore, no engine request is issued,
\* nothing is collected or written, and the run does not return: an inline
\* request stays without a response, a background task stays running.
C28_ZeroConcurrencyNeverReturns ==
    (run.state # "none" /\ run.concurrency = 0 /\ run.channels # <<>>) =>
        /\ request.concurrency = 0
        /\ run.state = "batch"
        /\ run.i = 0
        /\ sem = 0
        /\ Len(tasks) = Min(Len(run.channels), BatchSize)
        /\ Waiting = 1..Len(tasks)
        /\ issued = 0
        /\ all_results = <<>>
        /\ db = db0
        /\ ~recorded
        /\ IF bg.state = "none"
           THEN phase = "inline" /\ response = NoResponse
           ELSE bg.state = "running"
\* An inline request for two channels with concurrency 0: both tasks wait.
C28_Witness ==
    /\ phase = "inline"
    /\ request.has_body
    /\ request.concurrency = 0
    /\ run.state = "batch"
    /\ Len(run.channels) = 2
    /\ Waiting = {1, 2}
    /\ sem = 0
    /\ issued = 0
    /\ response = NoResponse

\* The table the summary of a check_status_all response was read from: as the
\* request found it when deferred, as the run left it when inline.
SummaryTable == IF response.background THEN db0 ELSE db
ActiveIn(d) == {i \in DOMAIN d : d[i].is_active}
\* C29: the summary reads the active channels only: active_channels =
\* total_channels = the number of active rows, online, offline, unknown and
\* recent_checks count active rows only, and an inactive channel is in none of
\* them even when the run has just probed it through explicit channel_ids.
C29_SummaryCountsActiveOnly ==
    IsAllResponse =>
        LET sm == response.summary
            d  == SummaryTable
        IN  /\ sm.active_channels = sm.total_channels
            /\ sm.total_channels = Cardinality(ActiveIn(d))
            /\ sm.online = Cardinality({i \in ActiveIn(d) : d[i].is_online = "true"})
            /\ sm.offline = Cardinality({i \in ActiveIn(d) : d[i].is_online = "false"})
            /\ sm.unknown = Cardinality({i \in ActiveIn(d) : d[i].is_online = "null"})
            /\ sm.recent_checks =
                  Cardinality({i \in ActiveIn(d) : d[i].last_checked >= DayStart})
\* An inline run probed an inactive channel through channel_ids and found it
\* online; the summary of the response knows the one active channel only, never
\* probed.
C29_Witness ==
    /\ IsInlineResponse
    /\ request.channel_ids = <<1>>
    /\ DOMAIN db = {1, 2}
    /\ ~db[1].is_active
    /\ db[1].is_online = "true"
    /\ db[1].last_checked = now
    /\ response.results[1].is_online
    /\ db[2] = NeverProbed(TRUE)
    /\ response.summary.total_channels = 1
    /\ response.summary.active_channels = 1
    /\ response.summary.online = 0
    /\ response.summary.unknown = 1
    /\ response.summary.recent_checks = 0

\* An outcome of a probe of channel id is consistent in itself.
Consistent(o, id) ==
    /\ o.channel_id = id
    /\ o.status \in {"online", "offline", "error"}
    /\ o.is_online <=> o.status = "online"
    /\ o.error = Null <=> o.is_online
\* C30: every outcome check_channel_status or check_multiple_channels produces
\* is consistent: it names the channel probed, is_online is true exactly when
\* status is "online", error is null exactly when is_online is true, and status
\* is "online", "offline" or "error".  This holds of the outcome of every task
\* that has ended, of every outcome collected or returned by a run, and of the
\* outcome check_status answers with.
C30_OutcomesAreConsistent ==
    /\ \A p \in 1..Len(tasks) :
          tasks[p].st \in {"sleeping", "done"} => Consistent(tasks[p].result, tasks[p].id)
    /\ \A j \in 1..Len(all_results) : Consistent(all_results[j], run.channels[j])
    /\ IsInlineResponse =>
          \A j \in 1..Len(response.results) : Consistent(response.results[j], run.channels[j])
    /\ (request.op = "one" /\ response.code = 200) => Consistent(response.outcome, request.id)
\* An inline run returned an offline outcome with the engine's error text for
\* one channel and the error outcome of a raised probe for another.
C30_Witness ==
    /\ IsInlineResponse
    /\ Len(response.results) = 2
    /\ response.results[1].channel_id # response.results[2].channel_id
    /\ response.results[1].status = "offline"
    /\ response.results[1].error = "unknown infohash"
    /\ response.results[2].status = "error"
    /\ response.results[2].error = DbErr
    /\ response.offline_count = 2

====
